---- MODULE Spec2Model ----
(***************************************************************************)
(* Session store of influencia-backend (SessionService over RedisService). *)
(*                                                                         *)
(* The key-value store is two keyspaces: session:<id> holding the JSON of  *)
(* a SessionData, and user_sessions:<userId> holding a set of session ids. *)
(* Every key carries the absolute time at which its TTL runs out.  Time is *)
(* a clock of ticks; several operations can fall on one tick (Date.now()   *)
(* returns the same value for them).  Of SessionData the fields sessionId, *)
(* userId, createdAt and lastAccessedAt are kept; email, role, tenantId,   *)
(* userAgent, ipAddress and metadata are stored and returned untouched by  *)
(* every operation below and are left out.                                 *)
(***************************************************************************)
EXTENDS Integers, Sequences, FiniteSets, TLC

\* ---------------------------------------------------------------- bounds
\* Session ids generateSessionId hands out (each id is fresh: a timestamp
\* and 32 random bytes): under Spec, and under SpecCreate.
MaxIds == 2
MaxLogins == 6
\* Session ids handed out under SpecGuard.
MaxGuardIds == 1
\* Requests a client sends past the cap of a rate-limit window.
MaxOverCap == 1
\* Last tick of the clock.
MaxTime == 2

\* ------------------------------------------------------ program constants
MAX_SESSIONS_PER_USER == 5
\* configService.get('SESSION_TTL', 7 * 24 * 60 * 60): the configured TTL,
\* here two ticks of the clock.
SESSION_TTL == 2
\* What the store reports as TTL of a key that has none.
NoExpiry == -1

VARIABLES
    now,          \* the clock (Date.now())
    sessions,     \* session:<id>      -> [value: SessionData, expireAt]
    userSessions, \* user_sessions:<u> -> [value: set of ids,  expireAt]
    nextId,       \* the next id generateSessionId returns
    idLimit,      \* how many ids generateSessionId hands out in this run
    issued,       \* history: id -> the session createSession built for it
    destroyed,    \* history: ids on which a destroySession call has completed
    ttlExpired,   \* history: whether some session key has been removed by its TTL
    counters,     \* ratelimit:<ip>, ratelimit:auth:<ip> -> [value: count, expireAt]
    stateStore,   \* OAuthStateService.stateStore: state -> OAuthState
    nextState,    \* the next state generateRandomState returns
    returned,     \* history: state -> how often validateAndConsume returned its data
    crypto,       \* the text TokenEncryptionService was last given, and what it made of it
    procs         \* the calls of SessionService under way: process -> its position

\* What the session actions leave alone.
sideVars == <<stateStore, nextState, returned, crypto, procs>>

vars == <<now, sessions, userSessions, nextId, idLimit, issued, destroyed, ttlExpired,
          counters, sideVars>>

\* The store as the service sees it.
Store == [sessions |-> sessions, userSessions |-> userSessions]

Users == {1, 2}
\* The session ids a caller can present: the ids handed out so far, and 0 for
\* an id that is never handed out (an id not yet generated cannot be guessed).
SessionIds == 0..(nextId - 1)
\* additionalSeconds of extendSession: left out (0), or longer than the TTL.
ExtendSeconds == {0, SESSION_TTL + 1}

\* ------------------------------------------------------ RedisService
\* set(key, value, ttlSeconds): setEx when ttlSeconds is truthy, else set.
Set(kv, key, value, ttl, t) ==
    [k \in DOMAIN kv \cup {key} |->
        IF k = key
        THEN [value |-> value, expireAt |-> IF ttl # 0 THEN t + ttl ELSE NoExpiry]
        ELSE kv[k]]

Exists(kv, key) == key \in DOMAIN kv

Del(kv, key) == [k \in DOMAIN kv \ {key} |-> kv[k]]

\* del's return value: the number of keys removed.
DelCount(kv, key) == IF key \in DOMAIN kv THEN 1 ELSE 0

\* expire(key, ttl) with ttl > 0: sets the TTL of an existing key.
Expire(kv, key, ttl, t) ==
    IF key \in DOMAIN kv THEN [kv EXCEPT ![key].expireAt = t + ttl] ELSE kv

\* sAdd creates the set (without TTL) when the key is missing.
SAdd(kv, key, member) ==
    IF key \in DOMAIN kv
    THEN [kv EXCEPT ![key].value = @ \cup {member}]
    ELSE [k \in DOMAIN kv \cup {key} |->
            IF k = key THEN [value |-> {member}, expireAt |-> NoExpiry] ELSE kv[k]]

\* sRem; the store drops a set key when its last member goes.
SRem(kv, key, member) ==
    IF key \notin DOMAIN kv THEN kv
    ELSE IF kv[key].value \ {member} = {} THEN Del(kv, key)
    ELSE [kv EXCEPT ![key].value = @ \ {member}]

SMembers(kv, key) == IF key \in DOMAIN kv THEN kv[key].value ELSE {}

\* The keys of a keyspace that outlive time t.
Unexpired(kv, t) ==
    [k \in {x \in DOMAIN kv : kv[x].expireAt = NoExpiry \/ kv[x].expireAt > t} |-> kv[k]]

\* ------------------------------------------------------ SessionService
\* Every operation is given the store st = [sessions, userSessions] it runs
\* on and the clock t it reads, and yields the store it leaves (...Store)
\* and the value it returns (...Ret).
NewSession(id, u, t) ==
    [sessionId |-> id, userId |-> u, createdAt |-> t, lastAccessedAt |-> t]

Touch(session, t) == [session EXCEPT !.lastAccessedAt = t]

\* The orders in which sMembers can list a set: the store fixes none.
RECURSIVE MemberOrders(_)
MemberOrders(S) ==
    IF S = {} THEN {<<>>}
    ELSE UNION {{<<x>> \o r : r \in MemberOrders(S \ {x})} : x \in S}

\* Array.prototype.sort is stable; dir = 1 is (a, b) => a.lastAccessedAt -
\* b.lastAccessedAt, dir = -1 is (a, b) => b.lastAccessedAt - a.lastAccessedAt.
RECURSIVE InsertStable(_, _, _)
InsertStable(sorted, x, dir) ==
    IF sorted = <<>> THEN <<x>>
    ELSE IF dir * (Head(sorted).lastAccessedAt - x.lastAccessedAt) <= 0
         THEN <<Head(sorted)>> \o InsertStable(Tail(sorted), x, dir)
         ELSE <<x>> \o sorted

RECURSIVE SortStable(_, _)
SortStable(seq, dir) ==
    IF seq = <<>> THEN <<>>
    ELSE InsertStable(SortStable(SubSeq(seq, 1, Len(seq) - 1), dir), seq[Len(seq)], dir)

GetUserSessionsRet(st, u) == SMembers(st.userSessions, u)

\* getUserSessionsWithDetails, given the order sMembers listed the ids in:
\* the records that still exist, most recently accessed first.
RECURSIVE LiveDetails(_, _)
LiveDetails(kv, order) ==
    IF order = <<>> THEN <<>>
    ELSE (IF Exists(kv, Head(order)) THEN <<kv[Head(order)].value>> ELSE <<>>)
         \o LiveDetails(kv, Tail(order))

\* getUserSessionsWithDetails that returns the records in the order read.
GetUserSessionsWithDetailsUnsorted(kv, order) == LiveDetails(kv, order)

GetUserSessionsWithDetails(kv, order) == SortStable(LiveDetails(kv, order), -1)

\* getUserSessionsWithDetails issues sMembers and getJson only: it writes
\* nothing.
GetUserSessionsWithDetailsStore(st, u) == st

\* getSession returns null (<<>>) or the record it re-persisted (<<session>>).
GetSessionRet(st, id, t) ==
    IF Exists(st.sessions, id) THEN <<Touch(st.sessions[id].value, t)>> ELSE <<>>

\* getSession that re-persists the record without a TTL.
GetSessionStoreNoTtl(st, id, t) ==
    IF Exists(st.sessions, id)
    THEN [st EXCEPT !.sessions = Set(st.sessions, id, Touch(st.sessions[id].value, t), 0, t)]
    ELSE st

GetSessionStore(st, id, t) ==
    IF Exists(st.sessions, id)
    THEN [st EXCEPT !.sessions =
            Set(st.sessions, id, Touch(st.sessions[id].value, t), SESSION_TTL, t)]
    ELSE st

\* validateSession: the session getSession gave, or the
\* UnauthorizedException thrown in its place.
ValidateSessionRet(st, id, t) ==
    IF GetSessionRet(st, id, t) = <<>>
    THEN [threw |-> TRUE, message |-> "Invalid or expired session", session |-> <<>>]
    ELSE [threw |-> FALSE, message |-> "", session |-> GetSessionRet(st, id, t)]

\* destroySession that takes the id off the index and leaves the record.
DestroySessionKeepsRecord(st, id) ==
    [sessions |-> st.sessions,
     userSessions |->
        IF Exists(st.sessions, id)
        THEN SRem(st.userSessions, st.sessions[id].value.userId, id)
        ELSE st.userSessions]

\* destroySession that deletes the record and leaves the index as it is.
DestroySessionKeepsIndexEntry(st, id) ==
    [sessions |-> Del(st.sessions, id), userSessions |-> st.userSessions]

DestroySessionStore(st, id) ==
    [sessions |-> Del(st.sessions, id),
     userSessions |->
        IF Exists(st.sessions, id)
        THEN SRem(st.userSessions, st.sessions[id].value.userId, id)
        ELSE st.userSessions]

\* destroySession that returns result >= 0.
DestroySessionRetAlways(st, id) == DelCount(st.sessions, id) >= 0

DestroySessionRet(st, id) == DelCount(st.sessions, id) > 0

\* destroyAllUserSessions whose last del is given a key other than the index.
DestroyAllUserSessionsKeepsIndex(st, u) ==
    [sessions |-> [k \in DOMAIN st.sessions \ SMembers(st.userSessions, u) |-> st.sessions[k]],
     userSessions |-> st.userSessions]

\* destroyAllUserSessions deletes the record of every id the index lists,
\* then the index, and counts one per id listed.
DestroyAllUserSessionsStore(st, u) ==
    [sessions |-> [k \in DOMAIN st.sessions \ GetUserSessionsRet(st, u) |-> st.sessions[k]],
     userSessions |-> Del(st.userSessions, u)]

DestroyAllUserSessionsRet(st, u) == Cardinality(GetUserSessionsRet(st, u))

\* extendSession: additionalSeconds || SESSION_TTL.
ExtendSessionStore(st, id, additionalSeconds, t) ==
    LET ttl == IF additionalSeconds # 0 THEN additionalSeconds ELSE SESSION_TTL
    IN  [st EXCEPT !.sessions = Expire(st.sessions, id, ttl, t)]

ExtendSessionRet(st, id) == Exists(st.sessions, id)

UpdateSessionMetadataStore(st, id, t) ==
    IF Exists(st.sessions, id)
    THEN [st EXCEPT !.sessions =
            Set(st.sessions, id, Touch(st.sessions[id].value, t), SESSION_TTL, t)]
    ELSE st

UpdateSessionMetadataRet(st, id) == Exists(st.sessions, id)

\* cleanupOldSessions that leaves the sort of getUserSessionsWithDetails
\* (most recently accessed first) as it is and takes the surplus from its head.
SessionsToRemoveNewest(kv, order) ==
    LET details == GetUserSessionsWithDetails(kv, order)
    IN  IF Len(details) <= MAX_SESSIONS_PER_USER THEN <<>>
        ELSE SubSeq(details, 1, Len(details) - MAX_SESSIONS_PER_USER)

\* cleanupOldSessions: the sessions it goes on to destroy, in order.
SessionsToRemove(kv, order) ==
    LET details == GetUserSessionsWithDetails(kv, order)
    IN  IF Len(details) <= MAX_SESSIONS_PER_USER THEN <<>>
        ELSE SubSeq(SortStable(details, 1), 1, Len(details) - MAX_SESSIONS_PER_USER)

RECURSIVE DestroyEach(_, _)
DestroyEach(st, victims) ==
    IF victims = <<>> THEN st
    ELSE DestroyEach(DestroySessionStore(st, Head(victims).sessionId), Tail(victims))

VictimIds(victims) == {victims[i].sessionId : i \in 1..Len(victims)}

\* The orders cleanupOldSessions can see the index in.  While the index
\* holds no more ids than the cap nothing is removed whatever the order, so
\* one order stands for all of them.
CleanupOrders(S) ==
    IF Cardinality(S) <= MAX_SESSIONS_PER_USER
    THEN {CHOOSE o \in MemberOrders(S) : TRUE}
    ELSE MemberOrders(S)

\* Every list of sessions cleanupOldSessions(u) can go on to destroy, one for
\* each order sMembers can list the index in.
CleanupChoices(st, u) ==
    {SessionsToRemove(st.sessions, order) :
        order \in CleanupOrders(GetUserSessionsRet(st, u))}

\* createSession up to its call of cleanupOldSessions: the record with its
\* TTL, the index entry, the TTL of the index.
CreateSessionStore(st, u, id, t) ==
    [sessions |-> Set(st.sessions, id, NewSession(id, u, t), SESSION_TTL, t),
     userSessions |-> Expire(SAdd(st.userSessions, u, id), u, SESSION_TTL, t)]

\* createSession as a whole: the stores it can leave, each with the
\* sessions cleanupOldSessions destroyed on the way.
CreateSessionOutcomes(st, u, id, t) ==
    {[store |-> DestroyEach(CreateSessionStore(st, u, id, t), victims), victims |-> victims] :
        victims \in CleanupChoices(CreateSessionStore(st, u, id, t), u)}

\* createSession returns the session it built, whatever cleanup did.
CreateSessionRet(u, id, t) == NewSession(id, u, t)

\* ------------------------------------------------------ store failures
\* A call of the store can reject (connectivity loss).  fail names the call
\* of the operation at hand that rejects; "none" is the run without failure.
GetSessionFaults == {"none", "getJson", "setJson"}
CreateSessionFaults == {"none", "setJson", "sAdd", "expire", "cleanupOldSessions"}

\* getSession that swallows a failed re-persist and returns what it read.
GetSessionUnderSwallowsSetJson(st, id, t, fail) ==
    IF fail = "getJson"
    THEN [threw |-> TRUE, message |-> "store unavailable", session |-> <<>>, store |-> st]
    ELSE IF ~Exists(st.sessions, id)
    THEN [threw |-> FALSE, message |-> "", session |-> <<>>, store |-> st]
    ELSE IF fail = "setJson"
    THEN [threw |-> FALSE, message |-> "", session |-> GetSessionRet(st, id, t), store |-> st]
    ELSE [threw |-> FALSE, message |-> "", session |-> GetSessionRet(st, id, t),
          store |-> GetSessionStore(st, id, t)]

\* getSession: awaits getJson, then setJson, with no try/catch; a rejection
\* of either leaves getSession rejected with the store's error.
GetSessionUnder(st, id, t, fail) ==
    IF fail = "getJson"
    THEN [threw |-> TRUE, message |-> "store unavailable", session |-> <<>>, store |-> st]
    ELSE IF ~Exists(st.sessions, id)
    THEN [threw |-> FALSE, message |-> "", session |-> <<>>, store |-> st]
    ELSE IF fail = "setJson"
    THEN [threw |-> TRUE, message |-> "store unavailable", session |-> <<>>, store |-> st]
    ELSE [threw |-> FALSE, message |-> "", session |-> GetSessionRet(st, id, t),
          store |-> GetSessionStore(st, id, t)]

ValidateSessionUnder(st, id, t, fail) ==
    LET got == GetSessionUnder(st, id, t, fail)
    IN  IF ~got.threw /\ got.session = <<>>
        THEN [got EXCEPT !.threw = TRUE, !.message = "Invalid or expired session"]
        ELSE got

\* createSession awaits setJson, sAdd, expire and cleanupOldSessions with no
\* try/catch: the first rejection leaves createSession rejected, with the
\* writes made before it in the store.  (cleanupOldSessions is taken to fail
\* at its first read.)
CreateSessionUnder(st, u, id, t, fail) ==
    LET stored == [st EXCEPT !.sessions =
                      Set(st.sessions, id, NewSession(id, u, t), SESSION_TTL, t)]
        added == [stored EXCEPT !.userSessions = SAdd(stored.userSessions, u, id)]
    IN  CASE fail = "setJson" -> {[threw |-> TRUE, session |-> <<>>, store |-> st, victims |-> <<>>]}
          [] fail = "sAdd"    -> {[threw |-> TRUE, session |-> <<>>, store |-> stored, victims |-> <<>>]}
          [] fail = "expire"  -> {[threw |-> TRUE, session |-> <<>>, store |-> added, victims |-> <<>>]}
          [] fail = "cleanupOldSessions" ->
                {[threw |-> TRUE, session |-> <<>>, store |-> CreateSessionStore(st, u, id, t),
                  victims |-> <<>>]}
          [] OTHER ->
                {[threw |-> FALSE, session |-> <<CreateSessionRet(u, id, t)>>,
                  store |-> out.store, victims |-> out.victims] :
                    out \in CreateSessionOutcomes(st, u, id, t)}

\* ------------------------------------------------------ guards
\* A request: the X-Session-ID header and the sessionId cookie (<<>> when
\* absent, else <<id>>), and the Authorization header (<<>> when absent, else
\* <<[prefix, rest]>> for the text prefix + rest).  A token is <<>> for the
\* empty text, else <<[valid, sub]>>: jwtService.verify returns the payload
\* of a token it accepts and throws on any other.
Tokens == {<<>>, <<[valid |-> FALSE, sub |-> 0]>>} \cup {<<[valid |-> TRUE, sub |-> u]>> : u \in Users}
AuthorizationHeaders ==
    {<<>>} \cup {<<[prefix |-> "Bearer ", rest |-> r]>> : r \in Tokens}
           \cup {<<[prefix |-> "Basic ", rest |-> <<[valid |-> TRUE, sub |-> u]>>]>> : u \in {1}}
OptionalSessionIds == {<<>>} \cup {<<id>> : id \in SessionIds}
Requests ==
    [sessionHeader : OptionalSessionIds, cookie : OptionalSessionIds,
     authorization : AuthorizationHeaders]

JwtVerify(token) ==
    IF token # <<>> /\ token[1].valid
    THEN [threw |-> FALSE, payload |-> <<[sub |-> token[1].sub]>>]
    ELSE [threw |-> TRUE, payload |-> <<>>]

\* extractSessionId that reads the cookie before the header.
ExtractSessionIdCookieFirst(request) ==
    IF request.cookie # <<>> THEN request.cookie
    ELSE IF request.sessionHeader # <<>> THEN request.sessionHeader
    ELSE <<>>

\* extractSessionId: the header if it is there, else the cookie, else null.
ExtractSessionId(request) ==
    IF request.sessionHeader # <<>> THEN request.sessionHeader
    ELSE IF request.cookie # <<>> THEN request.cookie
    ELSE <<>>

\* extractJwt: what follows 'Bearer ', else null.
ExtractJwt(request) ==
    IF request.authorization # <<>> /\ request.authorization[1].prefix = "Bearer "
    THEN <<request.authorization[1].rest>>
    ELSE <<>>

\* request.user as the session path sets it (email, role and tenantId are
\* copied beside userId and are left out, as in SessionData).
SessionIdentity(session) == [userId |-> session.userId, sessionId |-> session.sessionId]
\* request.user as the token path sets it: no sessionId.
TokenIdentity(payload) == [userId |-> payload.sub]

\* SessionAuthGuard that lets a request pass on a bearer token that verifies.
SessionAuthGuardAcceptsToken(st, request, t, fail) ==
    LET sessionId == ExtractSessionId(request)
        v == ValidateSessionUnder(st, sessionId[1], t, fail)
        token == ExtractJwt(request)
    IN  IF sessionId # <<>> /\ ~v.threw
        THEN [activated |-> TRUE, status |-> 200, message |-> "",
              user |-> <<SessionIdentity(v.session[1])>>, store |-> v.store]
        ELSE IF token # <<>> /\ ~JwtVerify(token[1]).threw
        THEN [activated |-> TRUE, status |-> 200, message |-> "",
              user |-> <<TokenIdentity(JwtVerify(token[1]).payload[1])>>, store |-> st]
        ELSE [activated |-> FALSE, status |-> 401, message |-> "Invalid or expired session",
              user |-> <<>>, store |-> st]

\* SessionAuthGuard.canActivate: true, or the UnauthorizedException thrown.
SessionAuthGuardCanActivate(st, request, t, fail) ==
    LET sessionId == ExtractSessionId(request)
        v == ValidateSessionUnder(st, sessionId[1], t, fail)
    IN  IF sessionId = <<>>
        THEN [activated |-> FALSE, status |-> 401, message |-> "No session ID provided",
              user |-> <<>>, store |-> st]
        ELSE IF v.threw
        THEN [activated |-> FALSE, status |-> 401, message |-> "Invalid or expired session",
              user |-> <<>>, store |-> v.store]
        ELSE [activated |-> TRUE, status |-> 200, message |-> "",
              user |-> <<SessionIdentity(v.session[1])>>, store |-> v.store]

\* HybridAuthGuard that rejects as soon as the session does not validate.
HybridAuthGuardNoFallThrough(st, request, t, fail) ==
    LET sessionId == ExtractSessionId(request)
        v == ValidateSessionUnder(st, sessionId[1], t, fail)
    IN  IF sessionId # <<>> /\ ~v.threw
        THEN [activated |-> TRUE, status |-> 200, message |-> "", path |-> "session",
              user |-> <<SessionIdentity(v.session[1])>>, verified |-> 0, store |-> v.store]
        ELSE [activated |-> FALSE, status |-> 401,
              message |-> "No authentication credentials provided", path |-> "",
              user |-> <<>>, verified |-> 0, store |-> st]

\* HybridAuthGuard with the token step alone, whose identity has a sessionId.
HybridAuthGuardTokenPathTouches(st, request, t, fail) ==
    LET token == ExtractJwt(request)
    IN  IF token # <<>> /\ token[1] # <<>> /\ ~JwtVerify(token[1]).threw
        THEN [activated |-> TRUE, status |-> 200, message |-> "", path |-> "token",
              user |-> <<[userId |-> JwtVerify(token[1]).payload[1].sub, sessionId |-> 0]>>,
              verified |-> 1, store |-> st]
        ELSE [activated |-> FALSE, status |-> 401, message |-> "Invalid or expired token",
              path |-> "", user |-> <<>>, verified |-> 1, store |-> st]

\* HybridAuthGuard.canActivate: the session step, then the token step.  path
\* is the step that authenticated; verified counts the calls of
\* jwtService.verify.  !token is true of null and of the empty text.
HybridAuthGuardCanActivate(st, request, t, fail) ==
    LET sessionId == ExtractSessionId(request)
        v == ValidateSessionUnder(st, sessionId[1], t, fail)
        after == IF sessionId = <<>> THEN st ELSE v.store
        token == ExtractJwt(request)
    IN  IF sessionId # <<>> /\ ~v.threw
        THEN [activated |-> TRUE, status |-> 200, message |-> "", path |-> "session",
              user |-> <<SessionIdentity(v.session[1])>>, verified |-> 0, store |-> v.store]
        ELSE IF token = <<>> \/ token[1] = <<>>
        THEN [activated |-> FALSE, status |-> 401,
              message |-> "No authentication credentials provided", path |-> "",
              user |-> <<>>, verified |-> 0, store |-> after]
        ELSE IF JwtVerify(token[1]).threw
        THEN [activated |-> FALSE, status |-> 401, message |-> "Invalid or expired token",
              path |-> "", user |-> <<>>, verified |-> 1, store |-> after]
        ELSE [activated |-> TRUE, status |-> 200, message |-> "", path |-> "token",
              user |-> <<TokenIdentity(JwtVerify(token[1]).payload[1])>>, verified |-> 1,
              store |-> after]

\* ------------------------------------------------------ rate limiter
\* incr creates a missing key at 1, without TTL.
Incr(kv, key) ==
    IF key \in DOMAIN kv
    THEN [kv EXCEPT ![key].value = @ + 1]
    ELSE [k \in DOMAIN kv \cup {key} |->
            IF k = key THEN [value |-> 1, expireAt |-> NoExpiry] ELSE kv[k]]

\* ttl: the time the key has left, -1 for a key without TTL, -2 for no key.
Ttl(kv, key, t) ==
    IF key \notin DOMAIN kv THEN -2
    ELSE IF kv[key].expireAt = NoExpiry THEN NoExpiry
    ELSE kv[key].expireAt - t

\* The two configurations.  The program has windowMs 60 * 1000 with
\* maxRequests 100, and windowMs 15 * 60 * 1000 with maxRequests 10; here a
\* window of one and of two seconds (the clock of SpecRate ticks in seconds)
\* and a cap of three and of two: the code only compares current with 1 and
\* with maxRequests.
RateLimitConfig ==
    [windowMs |-> 1 * 1000, maxRequests |-> 3,
     message |-> "Too many requests, please try again later."]
AuthRateLimitConfig ==
    [windowMs |-> 2 * 1000, maxRequests |-> 2,
     message |-> "Too many login attempts, please try again later."]

\* Math.ceil(windowMs / 1000)
WindowSeconds(config) == (config.windowMs + 999) \div 1000

\* A text is the sequence of its pieces, so that two texts are equal exactly
\* when their pieces are.  getClientIp takes the address from the
\* X-Forwarded-For header when the request has one (any text the sender
\* chose), else from the connection.
LimiterRequests ==
    [forwardedFor : {<<>>, <<"auth:", "10.0.0.1">>}, ip : {<<"10.0.0.1">>}]
GetClientIp(request) ==
    IF request.forwardedFor # <<>> THEN request.forwardedFor ELSE request.ip
Clients == {GetClientIp(request) : request \in LimiterRequests}
\* `ratelimit:${ip}` and `ratelimit:auth:${ip}`
RateLimitKey(ip) == <<"ratelimit:">> \o ip
AuthRateLimitKey(ip) == <<"ratelimit:", "auth:">> \o ip
RateLimitFaults == {"none", "incr", "expire", "ttl"}

Max(a, b) == IF a >= b THEN a ELSE b

\* use() that answers 429 when a call of the store fails.
UseFailsClosed(kv, key, config, t, fail) ==
    LET incremented == Incr(kv, key)
        current == incremented[key].value
        expired == IF current = 1
                   THEN Expire(incremented, key, WindowSeconds(config), t)
                   ELSE incremented
    IN  IF fail = "incr" \/ fail = "ttl" \/ (fail = "expire" /\ current = 1)
        THEN [next |-> FALSE, status |-> 429, retryAfter |-> <<>>, remaining |-> <<>>,
              counters |-> kv]
        ELSE IF current > config.maxRequests
        THEN [next |-> FALSE, status |-> 429, retryAfter |-> <<Ttl(expired, key, t)>>,
              remaining |-> <<Max(0, config.maxRequests - current)>>, counters |-> expired]
        ELSE [next |-> TRUE, status |-> 200, retryAfter |-> <<>>,
              remaining |-> <<Max(0, config.maxRequests - current)>>, counters |-> expired]

\* use() of either middleware: incr, expire on the first hit, ttl, then 429
\* past the cap, else next().  A rejection of the store is caught and the
\* request let through; the commands issued before it stay applied.
Use(kv, key, config, t, fail) ==
    LET incremented == Incr(kv, key)
        current == incremented[key].value
        expired == IF current = 1
                   THEN Expire(incremented, key, WindowSeconds(config), t)
                   ELSE incremented
        ttl == Ttl(expired, key, t)
    IN  IF fail = "incr"
        THEN [next |-> TRUE, status |-> 200, retryAfter |-> <<>>, remaining |-> <<>>,
              counters |-> kv]
        ELSE IF fail = "expire" /\ current = 1
        THEN [next |-> TRUE, status |-> 200, retryAfter |-> <<>>, remaining |-> <<>>,
              counters |-> incremented]
        ELSE IF fail = "ttl"
        THEN [next |-> TRUE, status |-> 200, retryAfter |-> <<>>, remaining |-> <<>>,
              counters |-> expired]
        ELSE IF current > config.maxRequests
        THEN [next |-> FALSE, status |-> 429, retryAfter |-> <<ttl>>,
              remaining |-> <<Max(0, config.maxRequests - current)>>, counters |-> expired]
        ELSE [next |-> TRUE, status |-> 200, retryAfter |-> <<>>,
              remaining |-> <<Max(0, config.maxRequests - current)>>, counters |-> expired]

CounterValue(kv, key) == IF key \in DOMAIN kv THEN kv[key].value ELSE 0

\* The response headers use() has set when it ends: none when a call of the
\* store failed (setHeader comes after ttl).  RateLimitMiddleware sets
\* Limit, Remaining and Reset = Date.now() + ttl * 1000.
RateLimitHeaders(kv, key, t, fail) ==
    LET out == Use(kv, key, RateLimitConfig, t, fail)
    IN  IF out.remaining = <<>> THEN [h \in {} |-> 0]
        ELSE [h \in {"X-RateLimit-Limit", "X-RateLimit-Remaining", "X-RateLimit-Reset"} |->
                CASE h = "X-RateLimit-Limit" -> RateLimitConfig.maxRequests
                  [] h = "X-RateLimit-Remaining" -> out.remaining[1]
                  [] OTHER -> t * 1000 + Ttl(out.counters, key, t) * 1000]

\* AuthRateLimitMiddleware sets Limit and Remaining.
AuthRateLimitHeaders(kv, key, t, fail) ==
    LET out == Use(kv, key, AuthRateLimitConfig, t, fail)
    IN  IF out.remaining = <<>> THEN [h \in {} |-> 0]
        ELSE [h \in {"X-RateLimit-Limit", "X-RateLimit-Remaining"} |->
                CASE h = "X-RateLimit-Limit" -> AuthRateLimitConfig.maxRequests
                  [] OTHER -> out.remaining[1]]

\* ------------------------------------------------------ the state machine
\* No OAuth state, no text given to the encryption service, no call under way.
InitSide ==
    /\ stateStore = <<>>
    /\ nextState = 1
    /\ returned = <<>>
    /\ crypto = <<>>
    /\ procs = <<>>

\* The state after construction: an empty store.
InitStore ==
    /\ now = 0
    /\ sessions = <<>>
    /\ userSessions = <<>>
    /\ nextId = 1
    /\ issued = <<>>
    /\ destroyed = {}
    /\ ttlExpired = FALSE
    /\ counters = <<>>
    /\ InitSide

Init == InitStore /\ idLimit = MaxIds

CreateSession(u) ==
    /\ nextId <= idLimit
    /\ \E out \in CreateSessionOutcomes(Store, u, nextId, now) :
          /\ sessions' = out.store.sessions
          /\ userSessions' = out.store.userSessions
          /\ destroyed' = destroyed \cup VictimIds(out.victims)
    /\ issued' = [k \in DOMAIN issued \cup {nextId} |->
                    IF k = nextId THEN CreateSessionRet(u, nextId, now) ELSE issued[k]]
    /\ nextId' = nextId + 1
    /\ UNCHANGED <<now, idLimit, ttlExpired>>
    /\ UNCHANGED <<counters, sideVars>>

GetSession(id) ==
    /\ sessions' = GetSessionStore(Store, id, now).sessions
    /\ userSessions' = GetSessionStore(Store, id, now).userSessions
    /\ UNCHANGED <<now, nextId, idLimit, issued, destroyed, ttlExpired>>
    /\ UNCHANGED <<counters, sideVars>>

ValidateSession(id) ==
    /\ sessions' = GetSessionStore(Store, id, now).sessions
    /\ userSessions' = GetSessionStore(Store, id, now).userSessions
    /\ UNCHANGED <<now, nextId, idLimit, issued, destroyed, ttlExpired>>
    /\ UNCHANGED <<counters, sideVars>>

DestroySession(id) ==
    /\ sessions' = DestroySessionStore(Store, id).sessions
    /\ userSessions' = DestroySessionStore(Store, id).userSessions
    /\ destroyed' = destroyed \cup {id}
    /\ UNCHANGED <<now, nextId, idLimit, issued, ttlExpired>>
    /\ UNCHANGED <<counters, sideVars>>

DestroyAllUserSessions(u) ==
    /\ sessions' = DestroyAllUserSessionsStore(Store, u).sessions
    /\ userSessions' = DestroyAllUserSessionsStore(Store, u).userSessions
    /\ UNCHANGED <<now, nextId, idLimit, issued, destroyed, ttlExpired>>
    /\ UNCHANGED <<counters, sideVars>>

ExtendSession(id, additionalSeconds) ==
    /\ sessions' = ExtendSessionStore(Store, id, additionalSeconds, now).sessions
    /\ userSessions' = ExtendSessionStore(Store, id, additionalSeconds, now).userSessions
    /\ UNCHANGED <<now, nextId, idLimit, issued, destroyed, ttlExpired>>
    /\ UNCHANGED <<counters, sideVars>>

UpdateSessionMetadata(id) ==
    /\ sessions' = UpdateSessionMetadataStore(Store, id, now).sessions
    /\ userSessions' = UpdateSessionMetadataStore(Store, id, now).userSessions
    /\ UNCHANGED <<now, nextId, idLimit, issued, destroyed, ttlExpired>>
    /\ UNCHANGED <<counters, sideVars>>

\* AuthService.getActiveSessions: getUserSessionsWithDetails(userId).
GetActiveSessions(u) ==
    /\ sessions' = GetUserSessionsWithDetailsStore(Store, u).sessions
    /\ userSessions' = GetUserSessionsWithDetailsStore(Store, u).userSessions
    /\ UNCHANGED <<now, nextId, idLimit, issued, destroyed, ttlExpired>>
    /\ UNCHANGED <<counters, sideVars>>

\* Time passes; the store drops the keys whose TTL has run out.
Tick ==
    /\ now < MaxTime
    /\ now' = now + 1
    /\ sessions' = Unexpired(sessions, now + 1)
    /\ userSessions' = Unexpired(userSessions, now + 1)
    /\ ttlExpired' = (ttlExpired \/ DOMAIN sessions' # DOMAIN sessions
                                 \/ DOMAIN userSessions' # DOMAIN userSessions)
    /\ counters' = Unexpired(counters, now + 1)
    /\ UNCHANGED <<nextId, idLimit, issued, destroyed>>
    /\ UNCHANGED sideVars

Next ==
    \/ \E u \in Users : CreateSession(u)
    \/ \E id \in SessionIds : GetSession(id)
    \/ \E id \in SessionIds : ValidateSession(id)
    \/ \E id \in SessionIds : DestroySession(id)
    \/ \E u \in Users : DestroyAllUserSessions(u)
    \/ \E id \in SessionIds, s \in ExtendSeconds : ExtendSession(id, s)
    \/ \E id \in SessionIds : UpdateSessionMetadata(id)
    \/ \E u \in Users : GetActiveSessions(u)
    \/ Tick

Spec == Init /\ [][Next]_vars

\* Logins only: createSession calls, one after the other, as time passes.
InitCreate == InitStore /\ idLimit = MaxLogins

NextCreate ==
    \/ \E u \in Users : CreateSession(u)
    \/ Tick

SpecCreate == InitCreate /\ [][NextCreate]_vars

\* Requests through the guards, logins and logouts, against a store that
\* can fail.
CreateSessionFailing(u, fail) ==
    /\ nextId <= idLimit
    /\ \E out \in CreateSessionUnder(Store, u, nextId, now, fail) :
          /\ sessions' = out.store.sessions
          /\ userSessions' = out.store.userSessions
          /\ destroyed' = destroyed \cup VictimIds(out.victims)
    /\ issued' = [k \in DOMAIN issued \cup {nextId} |->
                    IF k = nextId THEN CreateSessionRet(u, nextId, now) ELSE issued[k]]
    /\ nextId' = nextId + 1
    /\ UNCHANGED <<now, idLimit, ttlExpired, counters>>
    /\ UNCHANGED sideVars

SessionAuthGuardRequest(request, fail) ==
    /\ \E out \in {SessionAuthGuardCanActivate(Store, request, now, fail)} :
          /\ sessions' = out.store.sessions
          /\ userSessions' = out.store.userSessions
    /\ UNCHANGED <<now, nextId, idLimit, issued, destroyed, ttlExpired, counters>>
    /\ UNCHANGED sideVars

HybridAuthGuardRequest(request, fail) ==
    /\ \E out \in {HybridAuthGuardCanActivate(Store, request, now, fail)} :
          /\ sessions' = out.store.sessions
          /\ userSessions' = out.store.userSessions
    /\ UNCHANGED <<now, nextId, idLimit, issued, destroyed, ttlExpired, counters>>
    /\ UNCHANGED sideVars

InitGuard == InitStore /\ idLimit = MaxGuardIds

NextGuard ==
    \/ \E u \in Users, fail \in CreateSessionFaults : CreateSessionFailing(u, fail)
    \/ \E id \in SessionIds : DestroySession(id)
    \/ \E request \in Requests, fail \in GetSessionFaults :
          SessionAuthGuardRequest(request, fail)
    \/ \E request \in Requests, fail \in GetSessionFaults :
          HybridAuthGuardRequest(request, fail)
    \/ Tick

SpecGuard == InitGuard /\ [][NextGuard]_vars

\* Requests through the rate limiters, as seconds pass.
RateLimitMiddleware(ip, fail) ==
    /\ CounterValue(counters, RateLimitKey(ip)) < RateLimitConfig.maxRequests + MaxOverCap
    /\ counters' = Use(counters, RateLimitKey(ip), RateLimitConfig, now, fail).counters
    /\ UNCHANGED <<now, sessions, userSessions, nextId, idLimit, issued, destroyed, ttlExpired>>
    /\ UNCHANGED sideVars

AuthRateLimitMiddleware(ip, fail) ==
    /\ CounterValue(counters, AuthRateLimitKey(ip)) < AuthRateLimitConfig.maxRequests + MaxOverCap
    /\ counters' = Use(counters, AuthRateLimitKey(ip), AuthRateLimitConfig, now, fail).counters
    /\ UNCHANGED <<now, sessions, userSessions, nextId, idLimit, issued, destroyed, ttlExpired>>
    /\ UNCHANGED sideVars

InitRate == InitStore /\ idLimit = MaxIds

NextRate ==
    \/ \E ip \in Clients, fail \in RateLimitFaults : RateLimitMiddleware(ip, fail)
    \/ \E ip \in Clients, fail \in RateLimitFaults : AuthRateLimitMiddleware(ip, fail)
    \/ Tick

SpecRate == InitRate /\ [][NextRate]_vars

\* ------------------------------------------------------ properties
Min(a, b) == IF a <= b THEN a ELSE b

\* The ids of the records stored for user u.
LiveSessionsOf(st, u) ==
    {id \in DOMAIN st.sessions : st.sessions[id].value.userId = u}

\* The ids createSession has built for user u.
IssuedTo(u) == {id \in DOMAIN issued : issued[id].userId = u}

C2_SixthSessionEvictsOldestPrior ==
    \A u \in Users :
        (nextId <= idLimit /\ Cardinality(LiveSessionsOf(Store, u)) = MAX_SESSIONS_PER_USER) =>
            \A out \in CreateSessionOutcomes(Store, u, nextId, now) :
                LET gone == (DOMAIN sessions \cup {nextId}) \ DOMAIN out.store.sessions
                IN  /\ Cardinality(gone) = 1
                    /\ nextId \notin gone
                    /\ \A g \in gone, k \in LiveSessionsOf(Store, u) :
                          sessions[g].value.lastAccessedAt <= sessions[k].value.lastAccessedAt

\* C3 as claimed: after createSession calls alone (no TTL expiry) a user
\* holds min(created, cap) sessions and they are the most recently created
\* ones: every evicted session was created before every surviving one.
C3_SurvivorsAreLastCreated ==
    ~ttlExpired =>
        \A u \in Users :
            /\ Cardinality(LiveSessionsOf(Store, u))
                 = Min(Cardinality(IssuedTo(u)), MAX_SESSIONS_PER_USER)
            /\ \A g \in IssuedTo(u) \ LiveSessionsOf(Store, u), k \in LiveSessionsOf(Store, u) :
                  g < k

\* C3 as amended: after createSession calls alone (no TTL expiry) a user
\* holds min(created, cap) sessions, and no evicted session has a later
\* createdAt than a surviving one (among sessions with the same createdAt
\* the evicted one is any of them).
C3_SurvivorsAreLastCreatedUpToTies ==
    ~ttlExpired =>
        \A u \in Users :
            /\ Cardinality(LiveSessionsOf(Store, u))
                 = Min(Cardinality(IssuedTo(u)), MAX_SESSIONS_PER_USER)
            /\ \A g \in IssuedTo(u) \ LiveSessionsOf(Store, u), k \in LiveSessionsOf(Store, u) :
                  issued[g].createdAt <= issued[k].createdAt

\* A user past the cap whose evicted session is older than a surviving one.
C3_Witness ==
    /\ ~ttlExpired
    /\ \E u \in Users :
          /\ Cardinality(IssuedTo(u)) > MAX_SESSIONS_PER_USER
          /\ \E g \in IssuedTo(u) \ LiveSessionsOf(Store, u), k \in LiveSessionsOf(Store, u) :
                issued[g].createdAt < issued[k].createdAt

\* C4: once destroyAllUserSessions(u) has completed, validateSession fails
\* for every session created for u before the call, whatever getSession,
\* extendSession and TTL expiries came before it.
C4_LogoutAllRevokesEverySession ==
    \A u \in Users : \A id \in IssuedTo(u) :
        ValidateSessionRet(DestroyAllUserSessionsStore(Store, u), id, now).threw

\* C5: getUserSessions(u) called right after destroyAllUserSessions(u)
\* returns an empty collection.
C5_NoSessionListedAfterLogoutAll ==
    \A u \in Users :
        GetUserSessionsRet(DestroyAllUserSessionsStore(Store, u), u) = {}

\* destroyAllUserSessions has acted: a user whose sessions are all gone
\* although none was destroyed one by one and no TTL has run out, while the
\* other user's index still lists a session.
C5_Witness ==
    /\ ~ttlExpired
    /\ \E u \in Users :
          /\ IssuedTo(u) # {}
          /\ IssuedTo(u) \cap destroyed = {}
          /\ LiveSessionsOf(Store, u) = {}
          /\ GetUserSessionsRet(Store, u) = {}
    /\ \E u \in Users : GetUserSessionsRet(Store, u) # {}

\* C6: destroyAllUserSessions(u) returns the number of session records the
\* call deleted.
C6_CountIsRecordsDeleted ==
    \A u \in Users :
        DestroyAllUserSessionsRet(Store, u)
          = Cardinality(DOMAIN sessions \ DOMAIN DestroyAllUserSessionsStore(Store, u).sessions)

\* Every stored record has lastAccessedAt >= createdAt and the userId and
\* createdAt it was created with.
StoredSessionsKeepIdentity ==
    \A id \in DOMAIN sessions :
        /\ sessions[id].value.lastAccessedAt >= sessions[id].value.createdAt
        /\ sessions[id].value.sessionId = id
        /\ sessions[id].value.userId = issued[id].userId
        /\ sessions[id].value.createdAt = issued[id].createdAt

\* C7: getSession(id) called right after the createSession that built id
\* returns a record with the userId given to createSession and with
\* lastAccessedAt >= createdAt; and every stored record has lastAccessedAt >=
\* createdAt and the userId and createdAt it was created with.
C7_CreatedSessionReadsBack ==
    /\ \A u \in Users :
          nextId <= idLimit =>
            \A out \in CreateSessionOutcomes(Store, u, nextId, now) :
                LET got == GetSessionRet(out.store, nextId, now)
                IN  /\ got # <<>>
                    /\ got[1].userId = u
                    /\ got[1].lastAccessedAt >= got[1].createdAt
    /\ StoredSessionsKeepIdentity

\* C8: getSession on a stored session sets lastAccessedAt to the current time
\* and the TTL to the full SESSION_TTL and returns that record; on an id with
\* no record it returns null and leaves the store as it was.
C8_GetSessionSlidesOrMisses ==
    \A id \in SessionIds :
        LET after == GetSessionStore(Store, id, now)
            got == GetSessionRet(Store, id, now)
        IN  IF Exists(sessions, id)
            THEN /\ Exists(after.sessions, id)
                 /\ after.sessions[id].value = Touch(sessions[id].value, now)
                 /\ after.sessions[id].expireAt = now + SESSION_TTL
                 /\ got = <<after.sessions[id].value>>
                 /\ after.userSessions = userSessions
                 /\ \A k \in DOMAIN sessions \ {id} :
                       Exists(after.sessions, k) /\ after.sessions[k] = sessions[k]
            ELSE /\ got = <<>>
                 /\ after = Store

\* getSession has acted on a session created at an earlier tick, beside a
\* session whose TTL was not refreshed.
C8_Witness ==
    /\ \E id \in DOMAIN sessions :
          /\ sessions[id].value.lastAccessedAt = now
          /\ sessions[id].value.createdAt < now
          /\ sessions[id].expireAt = now + SESSION_TTL
    /\ \E id \in DOMAIN sessions : sessions[id].expireAt < now + SESSION_TTL

\* C9: destroySession on a stored session removes the record, takes the id
\* off the owner's index and returns true; on an id with no record it returns
\* false and changes nothing; a second call changes nothing more.
C9_DestroySessionRemovesOnce ==
    \A id \in SessionIds :
        LET after == DestroySessionStore(Store, id)
        IN  /\ IF Exists(sessions, id)
               THEN /\ DestroySessionRet(Store, id)
                    /\ ~Exists(after.sessions, id)
                    /\ id \notin SMembers(after.userSessions, sessions[id].value.userId)
                    /\ \A k \in DOMAIN sessions \ {id} :
                          Exists(after.sessions, k) /\ after.sessions[k] = sessions[k]
                    /\ \A u \in Users :
                          SMembers(after.userSessions, u) = SMembers(userSessions, u) \ {id}
               ELSE /\ ~DestroySessionRet(Store, id)
                    /\ after = Store
            /\ DestroySessionStore(after, id) = after
            /\ ~DestroySessionRet(after, id)

\* destroySession has acted on one of two sessions of a user: the other is
\* still stored and listed.
C9_Witness ==
    \E id \in destroyed \cap DOMAIN issued :
        /\ ~Exists(sessions, id)
        /\ id \notin GetUserSessionsRet(Store, issued[id].userId)
        /\ LiveSessionsOf(Store, issued[id].userId) # {}
        /\ GetUserSessionsRet(Store, issued[id].userId) # {}

\* C10: while no key has expired by TTL, every id in user_sessions:u has a
\* stored session record whose userId is u.
C10_IndexListsStoredSessionsOfUser ==
    ~ttlExpired =>
        \A u \in DOMAIN userSessions : \A id \in userSessions[u].value :
            Exists(sessions, id) /\ sessions[id].value.userId = u

\* A session listed and stored after another one was destroyed and time has
\* passed, with no TTL run out.
C10_Witness ==
    /\ ~ttlExpired
    /\ now > 0
    /\ \E u \in Users : GetUserSessionsRet(Store, u) # {}
    /\ destroyed \cap DOMAIN issued # {}

\* C11: every stored session record of user u is a member of
\* user_sessions:u (the index outlives the sessions it lists, whatever
\* getSession, updateSessionMetadata and extendSession did to their TTLs).
C11_IndexOutlivesItsSessions ==
    \A id \in DOMAIN sessions :
        id \in GetUserSessionsRet(Store, sessions[id].value.userId)

\* C12: getUserSessionsWithDetails(u) returns, whatever order sMembers lists
\* the index in, exactly the stored records of the ids in user_sessions:u,
\* each once, most recently accessed first, and leaves the store as it was.
C12_DetailsAreStoredIndexedSessionsNewestFirst ==
    \A u \in Users :
        /\ GetUserSessionsWithDetailsStore(Store, u) = Store
        /\ \A order \in MemberOrders(GetUserSessionsRet(Store, u)) :
              LET details == GetUserSessionsWithDetails(sessions, order)
                  stored == {id \in GetUserSessionsRet(Store, u) : Exists(sessions, id)}
              IN  /\ {details[i].sessionId : i \in 1..Len(details)} = stored
                  /\ Len(details) = Cardinality(stored)
                  /\ \A i \in 1..Len(details) :
                        details[i] = sessions[details[i].sessionId].value
                  /\ \A i, j \in 1..Len(details) :
                        i < j => details[i].lastAccessedAt >= details[j].lastAccessedAt

\* An index that lists a session whose record has expired beside one whose
\* record is stored.
C12_Witness ==
    \E u \in Users :
        /\ \E id \in GetUserSessionsRet(Store, u) : ~Exists(sessions, id)
        /\ \E id \in GetUserSessionsRet(Store, u) : Exists(sessions, id)

\* The session id a request carries: the X-Session-ID header, else the cookie.
CarriedSessionId(request) ==
    IF request.sessionHeader # <<>> THEN request.sessionHeader ELSE request.cookie

\* The request carries a session id whose record is stored.
CarriesStoredSession(request) ==
    CarriedSessionId(request) # <<>> /\ Exists(sessions, CarriedSessionId(request)[1])

\* The request carries 'Bearer <token>' with a token (not the empty text).
CarriesBearerToken(request) ==
    /\ request.authorization # <<>>
    /\ request.authorization[1].prefix = "Bearer "
    /\ request.authorization[1].rest # <<>>

\* ... and jwtService.verify accepts the token.
CarriesValidBearerToken(request) ==
    CarriesBearerToken(request) /\ request.authorization[1].rest[1].valid

\* C13: HybridAuthGuard authenticates a request whose session id (header,
\* else cookie) validates through the session path, with the identity copied
\* from the stored session, whatever the Authorization header holds, and
\* without calling jwtService.verify.
C13_ValidSessionTakesSessionPath ==
    \A request \in Requests :
        CarriesStoredSession(request) =>
            LET out == HybridAuthGuardCanActivate(Store, request, now, "none")
                id == CarriedSessionId(request)[1]
            IN  /\ out.activated
                /\ out.path = "session"
                /\ out.user = <<[userId |-> sessions[id].value.userId, sessionId |-> id]>>
                /\ out.verified = 0

\* A stored session that a guard has validated at a later tick than its
\* creation.
C13_Witness ==
    \E id \in DOMAIN sessions :
        /\ sessions[id].value.lastAccessedAt > sessions[id].value.createdAt
        /\ id \in GetUserSessionsRet(Store, sessions[id].value.userId)

\* C14: HybridAuthGuard authenticates a request with a valid bearer token and
\* no session id through the token path; the identity is taken from the
\* token payload and has no sessionId; the store is left as it was.
C14_TokenOnlyTakesTokenPath ==
    \A request \in Requests :
        (CarriedSessionId(request) = <<>> /\ CarriesValidBearerToken(request)) =>
            LET out == HybridAuthGuardCanActivate(Store, request, now, "none")
            IN  /\ out.activated
                /\ out.path = "token"
                /\ out.verified = 1
                /\ Len(out.user) = 1
                /\ out.user[1].userId = request.authorization[1].rest[1].sub
                /\ "sessionId" \notin DOMAIN out.user[1]
                /\ out.store = Store

\* Time has passed over a stored session that no request has touched.
C14_Witness ==
    \E id \in DOMAIN sessions :
        /\ sessions[id].value.lastAccessedAt = sessions[id].value.createdAt
        /\ sessions[id].value.createdAt < now

\* C15: HybridAuthGuard ends in one outcome; it authenticates exactly the
\* requests that carry a session id that validates or a bearer token that
\* verifies; a session id that does not validate never rejects by itself;
\* without a bearer token the rejection says 'No authentication credentials
\* provided', with a token that does not verify 'Invalid or expired token'.
C15_HybridOutcome ==
    \A request \in Requests :
        LET out == HybridAuthGuardCanActivate(Store, request, now, "none")
        IN  /\ out.activated <=>
                  (CarriesStoredSession(request) \/ CarriesValidBearerToken(request))
            /\ out.activated <=> (out.status = 200 /\ out.user # <<>> /\ out.message = "")
            /\ ~out.activated <=> (out.status = 401 /\ out.user = <<>> /\ out.message # "")
            /\ (~CarriesStoredSession(request) /\ ~CarriesBearerToken(request)) =>
                  out.message = "No authentication credentials provided"
            /\ (~CarriesStoredSession(request) /\ CarriesBearerToken(request)
                  /\ ~CarriesValidBearerToken(request)) =>
                  out.message = "Invalid or expired token"

\* A session that has expired by its TTL: a request carrying its id falls
\* through to the token step.
C15_Witness ==
    /\ ttlExpired
    /\ \E id \in DOMAIN issued : id \notin destroyed /\ ~Exists(sessions, id)

C17_FailsClosed ==
    \A request \in Requests, fail \in GetSessionFaults \ {"none"} :
        LET id == CarriedSessionId(request)
        IN  (id # <<>> /\ (fail = "getJson" \/ Exists(sessions, id[1]))) =>
                /\ GetSessionUnder(Store, id[1], now, fail).threw
                /\ GetSessionUnder(Store, id[1], now, fail).session = <<>>
                /\ ValidateSessionUnder(Store, id[1], now, fail).threw
                /\ ValidateSessionUnder(Store, id[1], now, fail).session = <<>>
                /\ ~SessionAuthGuardCanActivate(Store, request, now, fail).activated
                /\ HybridAuthGuardCanActivate(Store, request, now, fail).path # "session"
                /\ HybridAuthGuardCanActivate(Store, request, now, fail).activated
                      <=> CarriesValidBearerToken(request)

\* The store has failed before (a record createSession stored without its
\* index entry) and a session is stored whose re-persist can fail.
C17_Witness ==
    /\ ~ttlExpired
    /\ \E id \in DOMAIN sessions :
          id \notin GetUserSessionsRet(Store, sessions[id].value.userId)

\* C18: when the store fails in createSession after the record was persisted
\* (at sAdd, at expire, or in cleanupOldSessions), createSession still returns
\* the session it created.
C18_HousekeepingFailureStillReturnsSession ==
    \A u \in Users, fail \in CreateSessionFaults \ {"none", "setJson"} :
        nextId <= idLimit =>
            \A out \in CreateSessionUnder(Store, u, nextId, now, fail) :
                ~out.threw /\ out.session = <<CreateSessionRet(u, nextId, now)>>

\* C19: any two requests rejected by the same guard get the same message.
C19_RejectionsLookAlike ==
    \A r1, r2 \in Requests :
        /\ (~SessionAuthGuardCanActivate(Store, r1, now, "none").activated
              /\ ~SessionAuthGuardCanActivate(Store, r2, now, "none").activated)
              => SessionAuthGuardCanActivate(Store, r1, now, "none").message
                   = SessionAuthGuardCanActivate(Store, r2, now, "none").message
        /\ (~HybridAuthGuardCanActivate(Store, r1, now, "none").activated
              /\ ~HybridAuthGuardCanActivate(Store, r2, now, "none").activated)
              => HybridAuthGuardCanActivate(Store, r1, now, "none").message
                   = HybridAuthGuardCanActivate(Store, r2, now, "none").message

\* C20: for every client and both limiters, a request is let through while the
\* window has seen fewer than cap requests, and rejected with 429 and
\* retryAfter > 0 from request cap + 1 on; every counter has a TTL that runs
\* out within the window length, after which counting starts again from zero.
C20_CapThenRejectUntilWindowEnds ==
    \A ip \in Clients :
        \A limiter \in {[key |-> RateLimitKey(ip), config |-> RateLimitConfig],
                        [key |-> AuthRateLimitKey(ip), config |-> AuthRateLimitConfig]} :
            LET out == Use(counters, limiter.key, limiter.config, now, "none")
                count == CounterValue(counters, limiter.key)
            IN  /\ count < limiter.config.maxRequests => (out.next /\ out.status = 200)
                /\ count >= limiter.config.maxRequests =>
                      /\ ~out.next
                      /\ out.status = 429
                      /\ out.retryAfter # <<>>
                      /\ out.retryAfter[1] > 0
                /\ limiter.key \in DOMAIN counters =>
                      /\ counters[limiter.key].expireAt # NoExpiry
                      /\ counters[limiter.key].expireAt <= now + WindowSeconds(limiter.config)

\* C21: every request through either limiter gets the headers
\* X-RateLimit-Limit = cap, X-RateLimit-Remaining = max(0, cap - count) and
\* X-RateLimit-Reset.
C21_ThreeHeadersOnEveryResponse ==
    \A ip \in Clients :
        LET general == RateLimitHeaders(counters, RateLimitKey(ip), now, "none")
            auth == AuthRateLimitHeaders(counters, AuthRateLimitKey(ip), now, "none")
            names == {"X-RateLimit-Limit", "X-RateLimit-Remaining", "X-RateLimit-Reset"}
        IN  /\ DOMAIN general = names
            /\ general["X-RateLimit-Limit"] = RateLimitConfig.maxRequests
            /\ general["X-RateLimit-Remaining"]
                 = Max(0, RateLimitConfig.maxRequests
                            - (CounterValue(counters, RateLimitKey(ip)) + 1))
            /\ DOMAIN auth = names
            /\ auth["X-RateLimit-Limit"] = AuthRateLimitConfig.maxRequests
            /\ auth["X-RateLimit-Remaining"]
                 = Max(0, AuthRateLimitConfig.maxRequests
                            - (CounterValue(counters, AuthRateLimitKey(ip)) + 1))

\* C22: when incr, expire or ttl fails, the limiter calls next() and does not
\* answer 429; every request ends either in next() called once or in 429.
C22_LimiterFailsOpen ==
    \A ip \in Clients, fail \in RateLimitFaults :
        \A limiter \in {[key |-> RateLimitKey(ip), config |-> RateLimitConfig],
                        [key |-> AuthRateLimitKey(ip), config |-> AuthRateLimitConfig]} :
            LET out == Use(counters, limiter.key, limiter.config, now, fail)
                fails == \/ fail \in {"incr", "ttl"}
                         \/ fail = "expire" /\ limiter.key \notin DOMAIN counters
            IN  /\ fails => (out.next /\ out.status # 429)
                /\ out.next <=> out.status # 429
                /\ out.next <=> out.retryAfter = <<>>

\* A counter that a failed expire has left without TTL, at or past its cap:
\* the store has failed before and a request with a failing store would be
\* past the cap.
C22_Witness ==
    \E ip \in Clients :
        /\ RateLimitKey(ip) \in DOMAIN counters
        /\ counters[RateLimitKey(ip)].expireAt = NoExpiry
        /\ counters[RateLimitKey(ip)].value >= RateLimitConfig.maxRequests

\* C26: every rate-limit counter has a TTL, no longer than its window,
\* whatever call of the store failed in the request that created it.
C26_EveryCounterExpiresWithinItsWindow ==
    \A ip \in Clients :
        /\ RateLimitKey(ip) \in DOMAIN counters =>
              /\ counters[RateLimitKey(ip)].expireAt # NoExpiry
              /\ counters[RateLimitKey(ip)].expireAt - now
                   <= WindowSeconds(RateLimitConfig)
        /\ AuthRateLimitKey(ip) \in DOMAIN counters =>
              /\ counters[AuthRateLimitKey(ip)].expireAt # NoExpiry
              /\ counters[AuthRateLimitKey(ip)].expireAt - now
                   <= WindowSeconds(AuthRateLimitConfig)

\* C27: the general key of a client is never the auth key of a client, and
\* a request through the general limiter alone leaves every auth counter as
\* it was.
C27_LimiterKeysDisjoint ==
    \A a, b \in Clients :
        /\ RateLimitKey(a) # AuthRateLimitKey(b)
        /\ CounterValue(Use(counters, RateLimitKey(a), RateLimitConfig, now, "none").counters,
                        AuthRateLimitKey(b))
             = CounterValue(counters, AuthRateLimitKey(b))

\* ------------------------------------------------------ OAuthStateService
\* The stateStore map keeps one entry per state; time is counted in ticks of
\* `now`, and STATE_TTL_MS (10 minutes) is one tick.
MaxStates == 3
STATE_TTL_MS == 1
Platforms == {"instagram"}
RedirectUrls == {<<>>, <<"/done">>}
OAuthStates == 0..(nextState - 1)

\* redirectUrl || `${appUrl}/creator/social-connect`
RedirectUrlOrDefault(redirectUrl) ==
    IF redirectUrl # <<>> THEN redirectUrl ELSE <<"appUrl", "/creator/social-connect">>

\* Map.set
MapSet(store, key, value) ==
    [k \in DOMAIN store \cup {key} |-> IF k = key THEN value ELSE store[k]]

GenerateStateStore(store, state, creatorId, platform, redirectUrl, t) ==
    MapSet(store, state,
           [state |-> state, creatorId |-> creatorId, platform |-> platform,
            createdAt |-> t, redirectUrl |-> RedirectUrlOrDefault(redirectUrl)])

\* Map.delete
MapDelete(store, state) == [k \in DOMAIN store \ {state} |-> store[k]]

Elapsed(store, state, t) == t - store[state].createdAt

\* validateAndConsume that leaves the state in the map when it returns it.
ValidateAndConsumeKeeps(store, state, t) ==
    IF state \notin DOMAIN store THEN store
    ELSE IF Elapsed(store, state, t) > STATE_TTL_MS THEN MapDelete(store, state)
    ELSE store

ValidateAndConsumeStore(store, state, t) ==
    IF state \notin DOMAIN store THEN store
    ELSE IF Elapsed(store, state, t) > STATE_TTL_MS THEN MapDelete(store, state)
    ELSE MapDelete(store, state)

\* <<>> stands for null.
ValidateAndConsumeRet(store, state, t) ==
    IF state \notin DOMAIN store THEN <<>>
    ELSE IF Elapsed(store, state, t) > STATE_TTL_MS THEN <<>>
    ELSE <<store[state]>>

StateExists(store, state) == state \in DOMAIN store

CleanupExpiredStatesStore(store, t) ==
    [k \in {state \in DOMAIN store : ~(Elapsed(store, state, t) > STATE_TTL_MS)} |-> store[k]]

SessionVars ==
    <<sessions, userSessions, nextId, idLimit, issued, destroyed, ttlExpired, counters>>

GenerateState(creatorId, platform, redirectUrl) ==
    /\ nextState <= MaxStates
    /\ stateStore' = GenerateStateStore(stateStore, nextState, creatorId, platform,
                                        redirectUrl, now)
    /\ nextState' = nextState + 1
    /\ returned' = MapSet(returned, nextState, 0)
    /\ UNCHANGED <<now, SessionVars, crypto, procs>>

ValidateAndConsume(state) ==
    /\ stateStore' = ValidateAndConsumeStore(stateStore, state, now)
    /\ returned' = IF ValidateAndConsumeRet(stateStore, state, now) # <<>>
                   THEN MapSet(returned, state, returned[state] + 1)
                   ELSE returned
    /\ UNCHANGED <<now, SessionVars, nextState, crypto, procs>>

CleanupExpiredStates ==
    /\ stateStore' = CleanupExpiredStatesStore(stateStore, now)
    /\ UNCHANGED <<now, SessionVars, nextState, returned, crypto, procs>>

InitOAuth == InitStore /\ idLimit = MaxIds

NextOAuth ==
    \/ \E creatorId \in Users, platform \in Platforms, redirectUrl \in RedirectUrls :
          GenerateState(creatorId, platform, redirectUrl)
    \/ \E state \in OAuthStates : ValidateAndConsume(state)
    \/ CleanupExpiredStates
    \/ Tick

SpecOAuth == InitOAuth /\ [][NextOAuth]_vars

\* C28: a state is returned by validateAndConsume at most once; a state
\* older than STATE_TTL_MS gets null and is deleted; a state never generated
\* or already consumed gets null; a state within its life gets its stored
\* data and is deleted; cleanupExpiredStates removes the expired states and
\* no other.
C28_StateIsOneTimeAndExpires ==
    /\ \A state \in DOMAIN returned : returned[state] <= 1
    /\ \A state \in OAuthStates :
          LET ret == ValidateAndConsumeRet(stateStore, state, now)
              after == ValidateAndConsumeStore(stateStore, state, now)
          IN  /\ ~StateExists(after, state)
              /\ \A other \in DOMAIN stateStore \ {state} :
                    StateExists(after, other) /\ after[other] = stateStore[other]
              /\ ValidateAndConsumeRet(after, state, now) = <<>>
              /\ (state = 0 \/ ~StateExists(stateStore, state)) => ret = <<>>
              /\ (StateExists(stateStore, state) /\ now - stateStore[state].createdAt
                                                      > STATE_TTL_MS) => ret = <<>>
              /\ (StateExists(stateStore, state) /\ now - stateStore[state].createdAt
                                                      <= STATE_TTL_MS)
                    => ret = <<stateStore[state]>>
              /\ ret # <<>> => returned[state] = 0
    /\ LET cleaned == CleanupExpiredStatesStore(stateStore, now)
       IN  /\ DOMAIN cleaned = {state \in DOMAIN stateStore :
                                  now - stateStore[state].createdAt <= STATE_TTL_MS}
           /\ \A state \in DOMAIN cleaned : cleaned[state] = stateStore[state]

\* One state has been returned and is gone, another one is stored and older
\* than STATE_TTL_MS, a third one is stored and exactly STATE_TTL_MS old.
C28_Witness ==
    /\ \E state \in DOMAIN returned :
          returned[state] = 1 /\ ~StateExists(stateStore, state)
    /\ \E state \in DOMAIN stateStore :
          now - stateStore[state].createdAt > STATE_TTL_MS
    /\ \E state \in DOMAIN stateStore :
          now - stateStore[state].createdAt = STATE_TTL_MS

\* ------------------------------------------------------ TokenEncryptionService
\* A string is the sequence of its UTF-16 code units, a Buffer the sequence
\* of its bytes.
MaxLen == 2
keyLength == 32
ivLength == 16
tagLength == 16
Colon == 58
ReplacementCharacter == 65533

IsHighSurrogate(unit) == unit >= 55296 /\ unit <= 56319
IsLowSurrogate(unit) == unit >= 56320 /\ unit <= 57343
IsContinuation(byte) == byte >= 128 /\ byte <= 191

\* The strings with no surrogate outside a pair.
RECURSIVE WellFormed(_)
WellFormed(text) ==
    IF text = <<>> THEN TRUE
    ELSE IF IsHighSurrogate(text[1])
    THEN /\ Len(text) >= 2
         /\ IsLowSurrogate(text[2])
         /\ WellFormed(SubSeq(text, 3, Len(text)))
    ELSE ~IsLowSurrogate(text[1]) /\ WellFormed(Tail(text))

Utf8OfCodePoint(point) ==
    IF point < 128 THEN <<point>>
    ELSE IF point < 2048 THEN <<192 + (point \div 64), 128 + (point % 64)>>
    ELSE IF point < 65536
    THEN <<224 + (point \div 4096), 128 + ((point \div 64) % 64), 128 + (point % 64)>>
    ELSE <<240 + (point \div 262144), 128 + ((point \div 4096) % 64),
           128 + ((point \div 64) % 64), 128 + (point % 64)>>

\* Buffer.from(text, 'utf8'): a surrogate outside a pair is written as U+FFFD.
RECURSIVE Utf8Encode(_)
Utf8Encode(text) ==
    IF text = <<>> THEN <<>>
    ELSE IF IsHighSurrogate(text[1]) /\ Len(text) >= 2 /\ IsLowSurrogate(text[2])
    THEN Utf8OfCodePoint(65536 + (text[1] - 55296) * 1024 + (text[2] - 56320))
           \o Utf8Encode(SubSeq(text, 3, Len(text)))
    ELSE IF IsHighSurrogate(text[1]) \/ IsLowSurrogate(text[1])
    THEN Utf8OfCodePoint(ReplacementCharacter) \o Utf8Encode(Tail(text))
    ELSE Utf8OfCodePoint(text[1]) \o Utf8Encode(Tail(text))

\* Decoding that gives one code unit per byte.
Latin1Decode(bytes) == bytes

\* buffer.toString('utf8'): a byte that starts no valid sequence is read as
\* U+FFFD.
RECURSIVE Utf8Decode(_)
Utf8Decode(bytes) ==
    IF bytes = <<>> THEN <<>>
    ELSE LET b == bytes[1]
             n == Len(bytes)
             rest(k) == Utf8Decode(SubSeq(bytes, k + 1, n))
         IN  IF b < 128 THEN <<b>> \o rest(1)
             ELSE IF b >= 194 /\ b <= 223 /\ n >= 2 /\ IsContinuation(bytes[2])
             THEN <<(b - 192) * 64 + (bytes[2] - 128)>> \o rest(2)
             ELSE IF /\ b >= 224 /\ b <= 239 /\ n >= 3
                     /\ IsContinuation(bytes[2]) /\ IsContinuation(bytes[3])
                     /\ (b - 224) * 4096 + (bytes[2] - 128) * 64 + (bytes[3] - 128) >= 2048
                     /\ ~IsHighSurrogate((b - 224) * 4096 + (bytes[2] - 128) * 64
                                           + (bytes[3] - 128))
                     /\ ~IsLowSurrogate((b - 224) * 4096 + (bytes[2] - 128) * 64
                                          + (bytes[3] - 128))
             THEN <<(b - 224) * 4096 + (bytes[2] - 128) * 64 + (bytes[3] - 128)>> \o rest(3)
             ELSE IF /\ b >= 240 /\ b <= 244 /\ n >= 4
                     /\ IsContinuation(bytes[2]) /\ IsContinuation(bytes[3])
                     /\ IsContinuation(bytes[4])
                     /\ (b - 240) * 262144 + (bytes[2] - 128) * 4096
                          + (bytes[3] - 128) * 64 + (bytes[4] - 128) >= 65536
                     /\ (b - 240) * 262144 + (bytes[2] - 128) * 4096
                          + (bytes[3] - 128) * 64 + (bytes[4] - 128) <= 1114111
             THEN LET point == (b - 240) * 262144 + (bytes[2] - 128) * 4096
                                 + (bytes[3] - 128) * 64 + (bytes[4] - 128)
                  IN  <<55296 + ((point - 65536) \div 1024), 56320 + ((point - 65536) % 1024)>>
                        \o rest(4)
             ELSE <<ReplacementCharacter>> \o rest(1)

\* The code unit of a base64 digit 0..63: A-Z a-z 0-9 + /
Base64Unit(digit) ==
    IF digit < 26 THEN 65 + digit
    ELSE IF digit < 52 THEN 97 + (digit - 26)
    ELSE IF digit < 62 THEN 48 + (digit - 52)
    ELSE IF digit = 62 THEN 43 ELSE 47

IsBase64Unit(unit) ==
    \/ unit >= 65 /\ unit <= 90
    \/ unit >= 97 /\ unit <= 122
    \/ unit >= 48 /\ unit <= 57
    \/ unit = 43 \/ unit = 47

Base64Digit(unit) ==
    IF unit >= 65 /\ unit <= 90 THEN unit - 65
    ELSE IF unit >= 97 /\ unit <= 122 THEN unit - 97 + 26
    ELSE IF unit >= 48 /\ unit <= 57 THEN unit - 48 + 52
    ELSE IF unit = 43 THEN 62 ELSE 63

Padding == 61

\* buffer.toString('base64'): three bytes give four units, a last group of
\* one or two bytes is filled up with padding.
Base64Encode(bytes) ==
    LET n == Len(bytes)
        byte(i) == IF i <= n THEN bytes[i] ELSE 0
    IN  [k \in 1..(4 * ((n + 2) \div 3)) |->
            LET first == 3 * ((k - 1) \div 4) + 1
                place == (k - 1) % 4
            IN  IF place = 0 THEN Base64Unit(byte(first) \div 4)
                ELSE IF place = 1
                THEN Base64Unit(((byte(first) % 4) * 16) + (byte(first + 1) \div 16))
                ELSE IF place = 2
                THEN IF first + 1 > n THEN Padding
                     ELSE Base64Unit(((byte(first + 1) % 16) * 4) + (byte(first + 2) \div 64))
                ELSE IF first + 2 > n THEN Padding
                     ELSE Base64Unit(byte(first + 2) % 64)]

\* The base64 digits of a text as Buffer.from(text, 'base64') reads them: it
\* stops at the first padding unit and skips every unit that is no digit
\* (white space).
Base64Digits(text) ==
    LET paddings == {i \in 1..Len(text) : text[i] = Padding}
        end == IF paddings = {} THEN Len(text)
               ELSE (CHOOSE i \in paddings : \A j \in paddings : i <= j) - 1
        units == SelectSeq(SubSeq(text, 1, end), IsBase64Unit)
    IN  [i \in 1..Len(units) |-> Base64Digit(units[i])]

\* Four digits give three bytes; of a last group of two or three digits the
\* spare low bits are dropped, a single last digit gives nothing.
BytesOfDigits(digits) ==
    [k \in 1..((Len(digits) * 3) \div 4) |->
        LET first == 4 * ((k - 1) \div 3) + 1
            place == (k - 1) % 3
        IN  IF place = 0 THEN (digits[first] * 4) + (digits[first + 1] \div 16)
            ELSE IF place = 1
            THEN ((digits[first + 1] % 16) * 16) + (digits[first + 2] \div 4)
            ELSE ((digits[first + 2] % 4) * 64) + digits[first + 3]]

\* Buffer.from(text, 'base64')
Base64Decode(text) == BytesOfDigits(Base64Digits(text))

\* text.split(':'): one segment more than there are separators.
Split(text, separator) ==
    LET at == {i \in 1..Len(text) : text[i] = separator}
        nth(k) == IF k = 0 THEN 0
                  ELSE IF k > Cardinality(at) THEN Len(text) + 1
                  ELSE CHOOSE i \in at : Cardinality({j \in at : j < i}) = k - 1
    IN  [k \in 1..(Cardinality(at) + 1) |-> SubSeq(text, nth(k - 1) + 1, nth(k) - 1)]

RECURSIVE Join(_, _)
Join(parts, separator) ==
    IF Len(parts) = 0 THEN <<>>
    ELSE IF Len(parts) = 1 THEN parts[1]
    ELSE parts[1] \o <<separator>> \o Join(Tail(parts), separator)

\* The key of one instance: 32 bytes, random or derived by scrypt.
EncryptionKey == [i \in 1..keyLength |-> (37 * i + 11) % 256]

RECURSIVE WeightedSum(_, _)
WeightedSum(bytes, weight) ==
    IF bytes = <<>> THEN 0
    ELSE bytes[1] * weight + WeightedSum(Tail(bytes), weight + 2)

\* aes-256-gcm is a counter mode: byte i of the text is combined with byte i
\* of a key stream fixed by key and iv.
KeyStream(key, iv, i) ==
    (key[((i - 1) % Len(key)) + 1] + 3 * iv[((i - 1) % Len(iv)) + 1] + 29 * i) % 256

CipherUpdate(key, iv, bytes) ==
    [i \in 1..Len(bytes) |-> (bytes[i] + KeyStream(key, iv, i)) % 256]

DecipherUpdate(key, iv, bytes) ==
    [i \in 1..Len(bytes) |-> (bytes[i] + 256 - KeyStream(key, iv, i)) % 256]

\* cipher.getAuthTag(): 16 bytes fixed by key, iv and ciphertext.
GetAuthTag(key, iv, ciphertext) ==
    [j \in 1..tagLength |->
        (key[j] + WeightedSum(iv, 2 * j + 1) + WeightedSum(ciphertext, 2 * j + 5)
           + 7 * Len(ciphertext) + 13 * Len(iv)) % 256]

\* decipher.setAuthTag of a GCM decipher made without authTagLength takes a
\* tag of any of these lengths; final() compares that many bytes.
ValidTagLengths == {4, 8, 12, 13, 14, 15, 16}

IVs == {[i \in 1..ivLength |-> 0], [i \in 1..ivLength |-> (i * 16 + 15) % 256]}

Encrypt(plaintext, iv) ==
    IF plaintext = <<>> THEN <<>>
    ELSE LET encrypted == CipherUpdate(EncryptionKey, iv, Utf8Encode(plaintext))
             authTag == GetAuthTag(EncryptionKey, iv, encrypted)
         IN  Base64Encode(iv) \o <<Colon>> \o Base64Encode(authTag) \o <<Colon>>
               \o Base64Encode(encrypted)

Returned(text) == [threw |-> FALSE, value |-> text]
Threw == [threw |-> TRUE, value |-> <<>>]

Decrypt(encryptedData) ==
    IF encryptedData = <<>> THEN Returned(<<>>)
    ELSE LET parts == Split(encryptedData, Colon)
         IN  IF Len(parts) # 3 THEN Threw
             ELSE LET iv == Base64Decode(parts[1])
                      authTag == Base64Decode(parts[2])
                      encrypted == Base64Decode(parts[3])
                      expected == GetAuthTag(EncryptionKey, iv, encrypted)
                  IN  IF iv = <<>> THEN Threw
                      ELSE IF Len(authTag) \notin ValidTagLengths THEN Threw
                      ELSE IF authTag # SubSeq(expected, 1, Len(authTag)) THEN Threw
                      ELSE Returned(Utf8Decode(DecipherUpdate(EncryptionKey, iv, encrypted)))

IsEncrypted(data) == data # <<>> /\ Len(Split(data, Colon)) = 3

\* t, ':', U+FFFD, a high and a low surrogate
PlaintextUnits == {116, Colon, ReplacementCharacter, 55296, 56320}
Plaintexts == UNION {[1..n -> PlaintextUnits] : n \in 0..MaxLen}

\* What a holder of a stored blob can hand to decrypt in its place.
Alterations ==
    {"tagTruncated", "tagSpareBits", "ivWhiteSpace", "ciphertextByte", "tagByte", "ivByte",
     "segmentDropped", "segmentAdded"}

ReplaceAt(seq, i, value) == [k \in 1..Len(seq) |-> IF k = i THEN value ELSE seq[k]]

AlterByte(text, i) ==
    LET bytes == Base64Decode(text)
    IN  Base64Encode(ReplaceAt(bytes, i, (bytes[i] + 1) % 256))

Alter(blob, how) ==
    LET parts == Split(blob, Colon)
        lastDigit == Len(Base64Digits(parts[2]))
    IN  CASE how = "tagTruncated" ->
               Join(<<parts[1], Base64Encode(SubSeq(Base64Decode(parts[2]), 1, 4)), parts[3]>>,
                    Colon)
          [] how = "tagSpareBits" ->
               Join(<<parts[1],
                      ReplaceAt(parts[2], lastDigit,
                                Base64Unit(Base64Digit(parts[2][lastDigit]) + 1)),
                      parts[3]>>, Colon)
          [] how = "ivWhiteSpace" -> Join(<<parts[1] \o <<32>>, parts[2], parts[3]>>, Colon)
          [] how = "ciphertextByte" ->
               Join(<<parts[1], parts[2], AlterByte(parts[3], 1)>>, Colon)
          [] how = "tagByte" -> Join(<<parts[1], AlterByte(parts[2], 1), parts[3]>>, Colon)
          [] how = "ivByte" -> Join(<<AlterByte(parts[1], 1), parts[2], parts[3]>>, Colon)
          [] how = "segmentDropped" -> Join(<<parts[2], parts[3]>>, Colon)
          [] OTHER -> blob \o <<Colon, 116>>

\* A behaviour follows one token: `crypto` keeps the plaintext encrypted, the
\* blob encrypt returned, the text handed to decrypt and what decrypt did
\* (<<>> before the call).
EncryptToken(plaintext, iv) ==
    /\ DOMAIN crypto = {}
    /\ \E blob \in {Encrypt(plaintext, iv)} :
          crypto' = [plaintext |-> plaintext, blob |-> blob, presented |-> blob,
                     how |-> "none", out |-> <<>>]
    /\ UNCHANGED <<now, SessionVars, stateStore, nextState, returned, procs>>

AlterBlob(how) ==
    /\ DOMAIN crypto # {}
    /\ crypto.blob # <<>>
    /\ crypto' = [crypto EXCEPT !.presented = Alter(crypto.blob, how), !.how = how,
                                !.out = <<>>]
    /\ UNCHANGED <<now, SessionVars, stateStore, nextState, returned, procs>>

DecryptToken ==
    /\ DOMAIN crypto # {}
    /\ crypto' = [crypto EXCEPT !.out = <<Decrypt(crypto.presented)>>]
    /\ UNCHANGED <<now, SessionVars, stateStore, nextState, returned, procs>>

InitCrypto == InitStore /\ idLimit = MaxIds

NextCrypto ==
    \/ \E plaintext \in Plaintexts, iv \in IVs : EncryptToken(plaintext, iv)
    \/ \E how \in Alterations : AlterBlob(how)
    \/ DecryptToken

SpecCrypto == InitCrypto /\ [][NextCrypto]_vars

\* C23 as stated: decrypt(encrypt(p)) = p for every string p, the empty
\* string and strings with ':' included, and encrypt's output on a
\* non-empty p splits on ':' into exactly three segments.
C23_RoundTripEveryString ==
    /\ Encrypt(<<>>, CHOOSE iv \in IVs : TRUE) = <<>>
    /\ Decrypt(<<>>) = Returned(<<>>)
    /\ DOMAIN crypto # {} =>
          /\ crypto.plaintext # <<>> => Len(Split(crypto.blob, Colon)) = 3
          /\ (crypto.how = "none" /\ crypto.out # <<>>)
                => crypto.out[1] = Returned(crypto.plaintext)

\* C23 amended: decrypt(encrypt(p)) = p for every string p with no
\* surrogate outside a pair (every string that UTF-8 can carry), the empty
\* string and strings with ':' included; for a string with a lone surrogate
\* decrypt returns p with U+FFFD in its place; encrypt's output on a
\* non-empty p splits on ':' into exactly three segments.
C23_RoundTripWellFormed ==
    /\ Encrypt(<<>>, CHOOSE iv \in IVs : TRUE) = <<>>
    /\ Decrypt(<<>>) = Returned(<<>>)
    /\ DOMAIN crypto # {} =>
          /\ crypto.plaintext # <<>> =>
                /\ Len(Split(crypto.blob, Colon)) = 3
                /\ IsEncrypted(crypto.blob)
          /\ (crypto.how = "none" /\ crypto.out # <<>>) =>
                /\ ~crypto.out[1].threw
                /\ WellFormed(crypto.plaintext) => crypto.out[1].value = crypto.plaintext
                /\ ~WellFormed(crypto.plaintext) =>
                      /\ crypto.out[1].value # crypto.plaintext
                      /\ Len(crypto.out[1].value) = Len(crypto.plaintext)
                      /\ \A i \in 1..Len(crypto.plaintext) :
                            crypto.out[1].value[i] \in {crypto.plaintext[i],
                                                         ReplacementCharacter}

\* A plaintext with ':' and a surrogate pair has come back from decrypt.
C23_Witness ==
    /\ DOMAIN crypto # {}
    /\ crypto.how = "none"
    /\ crypto.out # <<>>
    /\ Colon \in {crypto.plaintext[i] : i \in 1..Len(crypto.plaintext)}
    /\ WellFormed(crypto.plaintext)
    /\ crypto.out[1] = Returned(crypto.plaintext)

\* C24: decrypt throws on every non-empty input that does not split on ':'
\* into exactly three segments and on every blob that differs from a valid
\* one in its IV, its tag or its ciphertext.
C24_DecryptFailsClosed ==
    (DOMAIN crypto # {} /\ crypto.out # <<>>) =>
        /\ (crypto.presented # <<>> /\ Len(Split(crypto.presented, Colon)) # 3)
              => crypto.out[1].threw
        /\ crypto.presented # crypto.blob => crypto.out[1].threw

\* ------------------------------------------------------ calls in steps
\* Each store command of a SessionService call is a step of its own, and
\* the steps of calls under way at the same time (in one server or in
\* several that share the store) interleave.  `procs` maps each caller with
\* a call under way to the call's operation, the command it sends next and
\* its local variables: the record it read (`session`), the ids it listed
\* (`pending`) and the ids it has deleted.
MaxRaceIds == 1
Procs == {1, 2}

Call(op, pc, id, u) ==
    [op |-> op, pc |-> pc, sessionId |-> id, userId |-> u, session |-> <<>>,
     pending |-> {}, deleted |-> {}]

Running(p) == p \in DOMAIN procs
Proceed(p, call) == [q \in DOMAIN procs \cup {p} |-> IF q = p THEN call ELSE procs[q]]
Finish(p) == [q \in DOMAIN procs \ {p} |-> procs[q]]

OtherVars == <<idLimit, counters, stateStore, nextState, returned, crypto>>

BeginGetSession(p, id) ==
    /\ ~Running(p)
    /\ procs' = Proceed(p, Call("getSession", "getJson", id, 0))
    /\ UNCHANGED <<now, sessions, userSessions, nextId, issued, destroyed, ttlExpired,
                   OtherVars>>

BeginUpdateSessionMetadata(p, id) ==
    /\ ~Running(p)
    /\ procs' = Proceed(p, Call("updateSessionMetadata", "getJson", id, 0))
    /\ UNCHANGED <<now, sessions, userSessions, nextId, issued, destroyed, ttlExpired,
                   OtherVars>>

BeginDestroySession(p, id) ==
    /\ ~Running(p)
    /\ procs' = Proceed(p, Call("destroySession", "getJson", id, 0))
    /\ UNCHANGED <<now, sessions, userSessions, nextId, issued, destroyed, ttlExpired,
                   OtherVars>>

BeginDestroyAllUserSessions(p, u) ==
    /\ ~Running(p)
    /\ procs' = Proceed(p, Call("destroyAllUserSessions", "sMembers", 0, u))
    /\ UNCHANGED <<now, sessions, userSessions, nextId, issued, destroyed, ttlExpired,
                   OtherVars>>

\* getJson of getSession, updateSessionMetadata and destroySession.
GetJsonStep(p) ==
    /\ Running(p)
    /\ procs[p].pc = "getJson"
    /\ LET id == procs[p].sessionId
           found == Exists(sessions, id)
           read == [procs[p] EXCEPT !.session = <<sessions[id].value>>]
       IN  procs' =
             IF procs[p].op = "destroySession"
             THEN IF found THEN Proceed(p, [read EXCEPT !.pc = "sRem"])
                  ELSE Proceed(p, [procs[p] EXCEPT !.pc = "del"])
             ELSE IF found THEN Proceed(p, [read EXCEPT !.pc = "stamp"])
                  ELSE Finish(p)
    /\ UNCHANGED <<now, sessions, userSessions, nextId, issued, destroyed, ttlExpired,
                   OtherVars>>

\* session.lastAccessedAt = Date.now(), and the setJson command is sent.
StampStep(p) ==
    /\ Running(p)
    /\ procs[p].pc = "stamp"
    /\ procs' = Proceed(p, [procs[p] EXCEPT !.session = <<Touch(procs[p].session[1], now)>>,
                                            !.pc = "setJson"])
    /\ UNCHANGED <<now, sessions, userSessions, nextId, issued, destroyed, ttlExpired,
                   OtherVars>>

\* The store carries out the setJson.
SetJsonStep(p) ==
    /\ Running(p)
    /\ procs[p].pc = "setJson"
    /\ sessions' = Set(sessions, procs[p].sessionId, procs[p].session[1], SESSION_TTL, now)
    /\ procs' = Finish(p)
    /\ UNCHANGED <<now, userSessions, nextId, issued, destroyed, ttlExpired, OtherVars>>

SRemStep(p) ==
    /\ Running(p)
    /\ procs[p].pc = "sRem"
    /\ userSessions' = SRem(userSessions, procs[p].session[1].userId, procs[p].sessionId)
    /\ procs' = Proceed(p, [procs[p] EXCEPT !.pc = "del"])
    /\ UNCHANGED <<now, sessions, nextId, issued, destroyed, ttlExpired, OtherVars>>

\* The del that ends destroySession.
DelStep(p) ==
    /\ Running(p)
    /\ procs[p].pc = "del"
    /\ sessions' = Del(sessions, procs[p].sessionId)
    /\ destroyed' = destroyed \cup {procs[p].sessionId}
    /\ procs' = Finish(p)
    /\ UNCHANGED <<now, userSessions, nextId, issued, ttlExpired, OtherVars>>

\* getUserSessions of destroyAllUserSessions.
SMembersStep(p) ==
    /\ Running(p)
    /\ procs[p].pc = "sMembers"
    /\ procs' = Proceed(p, [procs[p] EXCEPT !.pending = SMembers(userSessions, procs[p].userId),
                                            !.pc = "delEach"])
    /\ UNCHANGED <<now, sessions, userSessions, nextId, issued, destroyed, ttlExpired,
                   OtherVars>>

\* One turn of the loop of destroyAllUserSessions.
DelEachStep(p) ==
    /\ Running(p)
    /\ procs[p].pc = "delEach"
    /\ \E id \in procs[p].pending :
          /\ sessions' = Del(sessions, id)
          /\ procs' = Proceed(p, [procs[p] EXCEPT !.pending = @ \ {id},
                                                  !.deleted = @ \cup {id}])
    /\ UNCHANGED <<now, userSessions, nextId, issued, destroyed, ttlExpired, OtherVars>>

\* The del of the index that ends destroyAllUserSessions.
DelIndexStep(p) ==
    /\ Running(p)
    /\ procs[p].pc = "delEach"
    /\ procs[p].pending = {}
    /\ userSessions' = Del(userSessions, procs[p].userId)
    /\ destroyed' = destroyed \cup procs[p].deleted
    /\ procs' = Finish(p)
    /\ UNCHANGED <<now, sessions, nextId, issued, ttlExpired, OtherVars>>

InitRace == InitStore /\ idLimit = MaxRaceIds

NextRace ==
    \/ CreateSession(1)
    \/ \E p \in Procs, id \in SessionIds \ {0} : BeginGetSession(p, id)
    \/ \E p \in Procs, id \in SessionIds \ {0} : BeginUpdateSessionMetadata(p, id)
    \/ \E p \in Procs, id \in SessionIds \ {0} : BeginDestroySession(p, id)
    \/ \E p \in Procs : BeginDestroyAllUserSessions(p, 1)
    \/ \E p \in Procs : GetJsonStep(p)
    \/ \E p \in Procs : StampStep(p)
    \/ \E p \in Procs : SetJsonStep(p)
    \/ \E p \in Procs : SRemStep(p)
    \/ \E p \in Procs : DelStep(p)
    \/ \E p \in Procs : SMembersStep(p)
    \/ \E p \in Procs : DelEachStep(p)
    \/ \E p \in Procs : DelIndexStep(p)
    \/ Tick

SpecRace == InitRace /\ [][NextRace]_vars

\* C25: the lastAccessedAt stored for a session never decreases, whatever
\* the interleaving of the getSession and updateSessionMetadata calls on it.
C25_LastAccessedAtNeverDecreases ==
    [][\A id \in DOMAIN sessions \cap DOMAIN sessions' :
          sessions'[id].value.lastAccessedAt >= sessions[id].value.lastAccessedAt]_vars

\* C29: once destroySession(s), or destroyAllUserSessions of its owner, has
\* completed and no call is under way any more, there is no record for s and
\* validateSession(s) fails.
C29_DestroyedStaysDestroyed ==
    DOMAIN procs = {} =>
        \A id \in destroyed :
            /\ ~Exists(sessions, id)
            /\ ValidateSessionRet(Store, id, now).threw

\* ------------------------------------------------------ createSession in steps
\* createSession as the sequence of store commands it awaits: setJson, sAdd,
\* expire, then cleanupOldSessions: sMembers, one getJson for each id listed,
\* the two sorts, and destroySession (getJson, sRem, del) for each session to
\* remove.  A call keeps the ids as listed (`order`), its place in the list
\* (`at`), the records it has read (`snapshot`), the sessions left to
\* destroy (`victims`) and the record destroySession read (`victim`).
MaxCreates == 2
Existing == MAX_SESSIONS_PER_USER - 1

CreateCall(id, u, t) ==
    [op |-> "createSession", pc |-> "setJson", sessionId |-> id, userId |-> u,
     session |-> NewSession(id, u, t), order |-> <<>>, at |-> 1, snapshot |-> <<>>,
     victims |-> <<>>, victim |-> <<>>]

\* The store after n sessions of user 1 were created one after the other at
\* time 0.
RECURSIVE CreatedBefore(_)
CreatedBefore(n) ==
    IF n = 0 THEN [sessions |-> <<>>, userSessions |-> <<>>]
    ELSE CreateSessionStore(CreatedBefore(n - 1), 1, n, 0)

RECURSIVE Ascending(_)
Ascending(S) ==
    IF S = {} THEN <<>>
    ELSE LET least == CHOOSE x \in S : \A y \in S : x <= y
         IN  <<least>> \o Ascending(S \ {least})

Reverse(seq) == [i \in 1..Len(seq) |-> seq[Len(seq) + 1 - i]]

\* sMembers fixes no order; the ids come by rising or by falling id.
ListOrders(S) == {Ascending(S), Reverse(Ascending(S))}

\* The sessions getSession is called on while the creations run.
TouchedIds == {1, 2}

BeginCreateSession(p, u) ==
    /\ ~Running(p)
    /\ nextId <= idLimit
    /\ procs' = Proceed(p, CreateCall(nextId, u, now))
    /\ issued' = [k \in DOMAIN issued \cup {nextId} |->
                    IF k = nextId THEN CreateSessionRet(u, nextId, now) ELSE issued[k]]
    /\ nextId' = nextId + 1
    /\ UNCHANGED <<now, sessions, userSessions, destroyed, ttlExpired, OtherVars>>

CreateSetJsonStep(p) ==
    /\ Running(p)
    /\ procs[p].pc = "setJson"
    /\ sessions' = Set(sessions, procs[p].sessionId, procs[p].session, SESSION_TTL, now)
    /\ procs' = Proceed(p, [procs[p] EXCEPT !.pc = "sAdd"])
    /\ UNCHANGED <<now, userSessions, nextId, issued, destroyed, ttlExpired, OtherVars>>

CreateSAddStep(p) ==
    /\ Running(p)
    /\ procs[p].pc = "sAdd"
    /\ userSessions' = SAdd(userSessions, procs[p].userId, procs[p].sessionId)
    /\ procs' = Proceed(p, [procs[p] EXCEPT !.pc = "expire"])
    /\ UNCHANGED <<now, sessions, nextId, issued, destroyed, ttlExpired, OtherVars>>

CreateExpireStep(p) ==
    /\ Running(p)
    /\ procs[p].pc = "expire"
    /\ userSessions' = Expire(userSessions, procs[p].userId, SESSION_TTL, now)
    /\ procs' = Proceed(p, [procs[p] EXCEPT !.pc = "sMembers"])
    /\ UNCHANGED <<now, sessions, nextId, issued, destroyed, ttlExpired, OtherVars>>

\* getUserSessions of getUserSessionsWithDetails.
CleanupSMembersStep(p) ==
    /\ Running(p)
    /\ procs[p].pc = "sMembers"
    /\ \E order \in ListOrders(SMembers(userSessions, procs[p].userId)) :
          procs' = Proceed(p, [procs[p] EXCEPT !.order = order, !.at = 1, !.pc = "getJson"])
    /\ UNCHANGED <<now, sessions, userSessions, nextId, issued, destroyed, ttlExpired,
                   OtherVars>>

\* One turn of the loop of getUserSessionsWithDetails.
CleanupGetJsonStep(p) ==
    /\ Running(p)
    /\ procs[p].pc = "getJson"
    /\ procs[p].at <= Len(procs[p].order)
    /\ LET id == procs[p].order[procs[p].at]
       IN  procs' = Proceed(p,
               [procs[p] EXCEPT !.at = @ + 1,
                                !.snapshot = IF Exists(sessions, id)
                                             THEN MapSet(@, id, sessions[id])
                                             ELSE @])
    /\ UNCHANGED <<now, sessions, userSessions, nextId, issued, destroyed, ttlExpired,
                   OtherVars>>

\* The loop has ended: the sorts and the slice of cleanupOldSessions.
CleanupSortStep(p) ==
    /\ Running(p)
    /\ procs[p].pc = "getJson"
    /\ procs[p].at > Len(procs[p].order)
    /\ LET victims == SessionsToRemove(procs[p].snapshot, procs[p].order)
       IN  procs' = IF victims = <<>> THEN Finish(p)
                    ELSE Proceed(p, [procs[p] EXCEPT !.victims = victims,
                                                     !.pc = "victimGetJson"])
    /\ UNCHANGED <<now, sessions, userSessions, nextId, issued, destroyed, ttlExpired,
                   OtherVars>>

\* destroySession of the next session to remove: getJson, sRem, del.
VictimGetJsonStep(p) ==
    /\ Running(p)
    /\ procs[p].pc = "victimGetJson"
    /\ LET id == Head(procs[p].victims).sessionId
       IN  procs' = IF Exists(sessions, id)
                    THEN Proceed(p, [procs[p] EXCEPT !.victim = <<sessions[id].value>>,
                                                     !.pc = "victimSRem"])
                    ELSE Proceed(p, [procs[p] EXCEPT !.victim = <<>>, !.pc = "victimDel"])
    /\ UNCHANGED <<now, sessions, userSessions, nextId, issued, destroyed, ttlExpired,
                   OtherVars>>

VictimSRemStep(p) ==
    /\ Running(p)
    /\ procs[p].pc = "victimSRem"
    /\ userSessions' = SRem(userSessions, procs[p].victim[1].userId,
                            Head(procs[p].victims).sessionId)
    /\ procs' = Proceed(p, [procs[p] EXCEPT !.pc = "victimDel"])
    /\ UNCHANGED <<now, sessions, nextId, issued, destroyed, ttlExpired, OtherVars>>

VictimDelStep(p) ==
    /\ Running(p)
    /\ procs[p].pc = "victimDel"
    /\ sessions' = Del(sessions, Head(procs[p].victims).sessionId)
    /\ destroyed' = destroyed \cup {Head(procs[p].victims).sessionId}
    /\ procs' = IF Tail(procs[p].victims) = <<>> THEN Finish(p)
                ELSE Proceed(p, [procs[p] EXCEPT !.victims = Tail(@), !.victim = <<>>,
                                                 !.pc = "victimGetJson"])
    /\ UNCHANGED <<now, userSessions, nextId, issued, ttlExpired, OtherVars>>

\* Existing sessions of user 1 are stored, created at time 0, one short of
\* the cap; the clock reads 1.
InitCreateRace ==
    /\ now = 1
    /\ sessions = CreatedBefore(Existing).sessions
    /\ userSessions = CreatedBefore(Existing).userSessions
    /\ nextId = Existing + 1
    /\ idLimit = Existing + MaxCreates
    /\ issued = [id \in 1..Existing |-> CreateSessionRet(1, id, 0)]
    /\ destroyed = {}
    /\ ttlExpired = FALSE
    /\ counters = <<>>
    /\ InitSide

NextCreateRace ==
    \/ \E p \in Procs : BeginCreateSession(p, 1)
    \/ \E p \in Procs : CreateSetJsonStep(p)
    \/ \E p \in Procs : CreateSAddStep(p)
    \/ \E p \in Procs : CreateExpireStep(p)
    \/ \E p \in Procs : CleanupSMembersStep(p)
    \/ \E p \in Procs : CleanupGetJsonStep(p)
    \/ \E p \in Procs : CleanupSortStep(p)
    \/ \E p \in Procs : VictimGetJsonStep(p)
    \/ \E p \in Procs : VictimSRemStep(p)
    \/ \E p \in Procs : VictimDelStep(p)
    \/ \E id \in TouchedIds : GetSession(id)

SpecCreateRace == InitCreateRace /\ [][NextCreateRace]_vars

\* C30: once every createSession under way for the user has completed, the
\* user has at most MAX_SESSIONS_PER_USER stored sessions and no fewer than
\* min(cap, sessions that existed plus sessions created).
C30_ConcurrentCreatesKeepTheCap ==
    DOMAIN procs = {} =>
        /\ Cardinality(LiveSessionsOf(Store, 1)) <= MAX_SESSIONS_PER_USER
        /\ Cardinality(LiveSessionsOf(Store, 1)) >= Min(MAX_SESSIONS_PER_USER, nextId - 1)

====
